---- MODULE Spec2Model ----
(***************************************************************************)
(* Model of app.py: DocumentProcessor (extract_text_from_docx,             *)
(* extract_text_from_doc, extract_text_simple, analyze_contract_structure) *)
(* and the extraction dispatch of process_document.                        *)
(*                                                                         *)
(* Text is a sequence of Unicode code points, a byte buffer a sequence of  *)
(* numbers 0..255.  The character classes below are those of Python's str  *)
(* methods on the code points 0..255 and 1024..1119 (ASCII, Latin-1, basic *)
(* Cyrillic); every text of the model stays inside that range.             *)
(***************************************************************************)
EXTENDS Integers, Sequences, FiniteSets, TLC

VARIABLES
    \* process_document / extract_text_from_doc
    pc,            \* position inside process_document
    file_name,     \* suffix class of the file name: "docx", "doc", "other"
    file_content,  \* the byte buffer
    attempts,      \* extraction strategies entered so far, in order
    docx_raised,   \* extract_text_from_docx raised in this request
    conv_failed,   \* a step of the try block of extract_text_from_doc raised
    conv_text,     \* result.value kept in the local variable text
    tmp_exists,    \* the NamedTemporaryFile(delete=False) is on disk
    text,          \* the extracted text of the request
    raised,        \* an exception reached the outer handler of process_document
    response,      \* the response of process_document
    \* extract_text_from_docx
    body,          \* block items of the parsed document, in document order
    full_text,     \* the list full_text of extract_text_from_docx
    docx_out,      \* its return value
    docx_pc,       \* position inside extract_text_from_docx
    \* analyze_contract_structure
    a_text,        \* the text under analysis
    a_pc,          \* position inside the running call, "idle" between calls
    a_kind,        \* which text the running call is on
    a_arg,         \* argument text of the running call
    cur,           \* the dict structure the calls work on
    a_calls,       \* number of calls returned on a_text
    structure,     \* report returned by the latest call on a_text
    first,         \* report returned by the first call on a_text
    v_text,        \* a text differing from a_text only in letter case
    v_structure,   \* report returned by the call on v_text
    v_done,        \* that call has returned
    e_structure,   \* report returned by the call on the empty text
    e_done         \* that call has returned

vars == << pc, file_name, file_content, attempts, docx_raised, conv_failed,
           conv_text, tmp_exists, text, raised, response,
           body, full_text, docx_out, docx_pc,
           a_text, a_pc, a_kind, a_arg, cur, a_calls, structure, first,
           v_text, v_structure, v_done, e_structure, e_done >>

procVars == << pc, file_name, file_content, attempts, docx_raised, conv_failed,
               conv_text, tmp_exists, text, raised, response >>
docxVars == << body, full_text, docx_out, docx_pc >>
anaVars == << a_text, a_pc, a_kind, a_arg, cur, a_calls, structure, first,
             v_text, v_structure, v_done, e_structure, e_done >>

----------------------------------------------------------------------------
(* Bounds of the model *)

MaxLines == 2        \* lines per analysed text
MaxCalls == 2        \* repeated calls of analyze on one text
MaxBlocks == 3       \* block items per document body
MaxBytes == 3        \* bytes per buffer

----------------------------------------------------------------------------
(* Characters and strings *)

NL == 10

\* str.isspace
IsSpace(c) == (c >= 9 /\ c <= 13) \/ (c >= 28 /\ c <= 32) \/ c = 133 \/ c = 160

\* str.isprintable
IsPrintable(c) ==
    \/ (c >= 32 /\ c <= 126)
    \/ (c >= 161 /\ c <= 172)
    \/ (c >= 174 /\ c <= 255)
    \/ (c >= 1024 /\ c <= 1119)

\* str.isdigit
IsDigit(c) == (c >= 48 /\ c <= 57) \/ c = 178 \/ c = 179 \/ c = 185

IsUpperChar(c) ==
    \/ (c >= 65 /\ c <= 90)
    \/ (c >= 192 /\ c <= 214)
    \/ (c >= 216 /\ c <= 222)
    \/ (c >= 1024 /\ c <= 1071)

IsLowerChar(c) ==
    \/ (c >= 97 /\ c <= 122)
    \/ c = 170 \/ c = 181 \/ c = 186
    \/ (c >= 223 /\ c <= 246)
    \/ (c >= 248 /\ c <= 255)
    \/ (c >= 1072 /\ c <= 1119)

\* str.lower on one character
LowerChar(c) ==
    IF (c >= 65 /\ c <= 90) \/ (c >= 192 /\ c <= 214) \/ (c >= 216 /\ c <= 222)
       \/ (c >= 1040 /\ c <= 1071)
    THEN c + 32
    ELSE IF c >= 1024 /\ c <= 1039 THEN c + 80 ELSE c

\* str.lower
Lower(s) == [i \in 1..Len(s) |-> LowerChar(s[i])]

\* str.isupper: at least one cased character and no lower-case one
IsUpper(s) ==
    /\ \E i \in 1..Len(s) : IsUpperChar(s[i])
    /\ \A i \in 1..Len(s) : ~IsLowerChar(s[i])

\* str.strip
Strip(s) ==
    LET keep == {i \in 1..Len(s) : ~IsSpace(s[i])}
    IN  IF keep = {} THEN << >>
        ELSE LET lo == CHOOSE i \in keep : \A j \in keep : i <= j
                 hi == CHOOSE i \in keep : \A j \in keep : j <= i
             IN  SubSeq(s, lo, hi)

\* str.startswith
StartsWith(s, p) == Len(s) >= Len(p) /\ SubSeq(s, 1, Len(p)) = p

\* the operator "in" on strings
Contains(s, w) ==
    \E i \in 0..(Len(s) - Len(w)) : \A k \in 1..Len(w) : s[i + k] = w[k]

\* str.split(sep) for a one-character separator
Split(s, sep) ==
    LET seps == {i \in 1..Len(s) : s[i] = sep}
        n == Cardinality(seps)
        kth(k) == CHOOSE i \in seps : Cardinality({j \in seps : j < i}) = k - 1
    IN  [k \in 1..(n + 1) |->
            SubSeq(s, IF k = 1 THEN 1 ELSE kth(k - 1) + 1,
                      IF k = n + 1 THEN Len(s) ELSE kth(k) - 1)]

\* sep.join(parts)
RECURSIVE Join(_, _)
Join(parts, sep) ==
    IF parts = << >> THEN << >>
    ELSE IF Len(parts) = 1 THEN parts[1]
    ELSE parts[1] \o sep \o Join(Tail(parts), sep)

\* n copies of the character c
Rep(c, n) == [i \in 1..n |-> c]

----------------------------------------------------------------------------
(* analyze_contract_structure *)

\* "storony", "zakazchik", "ispolnitel", "prodavec", "pokupatel",
\* "arendator", "arendodatel"
KW_parties ==
    << <<1089, 1090, 1086, 1088, 1086, 1085, 1099>>,
       <<1079, 1072, 1082, 1072, 1079, 1095, 1080, 1082>>,
       <<1080, 1089, 1087, 1086, 1083, 1085, 1080, 1090, 1077, 1083, 1100>>,
       <<1087, 1088, 1086, 1076, 1072, 1074, 1077, 1094>>,
       <<1087, 1086, 1082, 1091, 1087, 1072, 1090, 1077, 1083, 1100>>,
       <<1072, 1088, 1077, 1085, 1076, 1072, 1090, 1086, 1088>>,
       <<1072, 1088, 1077, 1085, 1076, 1086, 1076, 1072, 1090, 1077, 1083, 1100>> >>
\* "predmet dogovora", "predmet soglasheniya"
KW_subject ==
    << <<1087, 1088, 1077, 1076, 1084, 1077, 1090, 32, 1076, 1086, 1075, 1086, 1074, 1086, 1088, 1072>>,
       <<1087, 1088, 1077, 1076, 1084, 1077, 1090, 32, 1089, 1086, 1075, 1083, 1072, 1096, 1077, 1085, 1080, 1103>> >>
\* "sroki", "srok deystviya", "period"
KW_terms ==
    << <<1089, 1088, 1086, 1082, 1080>>,
       <<1089, 1088, 1086, 1082, 32, 1076, 1077, 1081, 1089, 1090, 1074, 1080, 1103>>,
       <<1087, 1077, 1088, 1080, 1086, 1076>> >>
\* "obyazannosti", "otvetstvennost", "obyazatelstva"
KW_responsibilities ==
    << <<1086, 1073, 1103, 1079, 1072, 1085, 1085, 1086, 1089, 1090, 1080>>,
       <<1086, 1090, 1074, 1077, 1090, 1089, 1090, 1074, 1077, 1085, 1085, 1086, 1089, 1090, 1100>>,
       <<1086, 1073, 1103, 1079, 1072, 1090, 1077, 1083, 1100, 1089, 1090, 1074, 1072>> >>
\* "podpisi storon", "rekvizity"
KW_signatures ==
    << <<1087, 1086, 1076, 1087, 1080, 1089, 1080, 32, 1089, 1090, 1086, 1088, 1086, 1085>>,
       <<1088, 1077, 1082, 1074, 1080, 1079, 1080, 1090, 1099>> >>

\* the dict keywords
keywords ==
    [parties |-> KW_parties, subject |-> KW_subject, terms |-> KW_terms,
     responsibilities |-> KW_responsibilities, signatures |-> KW_signatures]

Categories == DOMAIN keywords

\* the section mark and the word "Statya"
SectionMark == << 167 >>
ArticleWord == << 1057, 1090, 1072, 1090, 1100, 1103 >>

MaxHeadingLen == 100
DigitWindow == 3

\* the dict structure as first built: every flag False, no sections
NewStructure ==
    [has_parties |-> FALSE, has_subject |-> FALSE, has_terms |-> FALSE,
     has_responsibilities |-> FALSE, has_signatures |-> FALSE,
     sections |-> << >>]

\* text_lower = text.lower()
TextLowerAsIs(t) == t
TextLower(t) == Lower(t)

\* the inner loop over the words of one category, leaving at the first match
RECURSIVE FlagFor(_, _, _)
FlagFor(words, text_lower, initial) ==
    IF words = << >> THEN initial
    ELSE IF Contains(text_lower, Head(words)) THEN TRUE
    ELSE FlagFor(Tail(words), text_lower, initial)

\* the condition of the outer if of the heading loop
IsHeadingShape(line_stripped) ==
    /\ line_stripped # << >>
    /\ \/ IsUpper(line_stripped)
       \/ \E i \in 1..DigitWindow :
              i <= Len(line_stripped) /\ IsDigit(line_stripped[i])
       \/ StartsWith(line_stripped, SectionMark)
       \/ StartsWith(line_stripped, ArticleWord)

\* the inner if: len(line_stripped) < 100
HeadingLengthOkInclusive(line_stripped) == Len(line_stripped) <= MaxHeadingLen
HeadingLengthOk(line_stripped) == Len(line_stripped) < MaxHeadingLen

\* the loop over lines, appending to structure["sections"]
RECURSIVE CollectSections(_, _)
CollectSections(lines, sections) ==
    IF lines = << >> THEN sections
    ELSE LET line_stripped == Strip(Head(lines))
         IN  CollectSections(Tail(lines),
                 IF IsHeadingShape(line_stripped) /\ HeadingLengthOk(line_stripped)
                 THEN Append(sections, line_stripped)
                 ELSE sections)

\* the loop over keywords.items(): a flag is set to True at a match and is
\* left as it is otherwise
SetFlags(s, t) ==
    LET text_lower == TextLower(t)
    IN  [s EXCEPT
            !.has_parties = FlagFor(keywords.parties, text_lower, @),
            !.has_subject = FlagFor(keywords.subject, text_lower, @),
            !.has_terms = FlagFor(keywords.terms, text_lower, @),
            !.has_responsibilities = FlagFor(keywords.responsibilities, text_lower, @),
            !.has_signatures = FlagFor(keywords.signatures, text_lower, @)]

\* the loop over text.split('\n'), appending to structure["sections"]
AppendSections(s, t) ==
    [s EXCEPT !.sections = CollectSections(Split(t, NL), @)]

analyze_contract_structure(t) == AppendSections(SetFlags(NewStructure, t), t)

----------------------------------------------------------------------------
(* extract_text_simple *)

IsCont(b) == b >= 128 /\ b <= 191

\* number of bytes of the well-formed UTF-8 sequence starting at b[i],
\* 0 when there is none
SeqLen(b, i) ==
    LET n == Len(b)
        b0 == b[i]
        c(k) == i + k <= n /\ IsCont(b[i + k])
    IN  IF b0 <= 127 THEN 1
        ELSE IF b0 >= 194 /\ b0 <= 223 /\ c(1) THEN 2
        ELSE IF b0 = 224 /\ c(1) /\ b[i + 1] >= 160 /\ c(2) THEN 3
        ELSE IF ((b0 >= 225 /\ b0 <= 236) \/ b0 = 238 \/ b0 = 239) /\ c(1) /\ c(2) THEN 3
        ELSE IF b0 = 237 /\ c(1) /\ b[i + 1] <= 159 /\ c(2) THEN 3
        ELSE IF b0 = 240 /\ c(1) /\ b[i + 1] >= 144 /\ c(2) /\ c(3) THEN 4
        ELSE IF b0 >= 241 /\ b0 <= 243 /\ c(1) /\ c(2) /\ c(3) THEN 4
        ELSE IF b0 = 244 /\ c(1) /\ b[i + 1] <= 143 /\ c(2) /\ c(3) THEN 4
        ELSE 0

\* code point of the well-formed sequence of k bytes starting at b[i]
CodePoint(b, i, k) ==
    IF k = 1 THEN b[i]
    ELSE IF k = 2 THEN (b[i] - 192) * 64 + (b[i + 1] - 128)
    ELSE IF k = 3 THEN (b[i] - 224) * 4096 + (b[i + 1] - 128) * 64 + (b[i + 2] - 128)
    ELSE (b[i] - 240) * 262144 + (b[i + 1] - 128) * 4096
         + (b[i + 2] - 128) * 64 + (b[i + 3] - 128)

\* bytes.decode('utf-8', errors='ignore'): bytes that start no well-formed
\* sequence are dropped
RECURSIVE DecodeFrom(_, _)
DecodeFrom(b, i) ==
    IF i > Len(b) THEN << >>
    ELSE LET k == SeqLen(b, i)
         IN  IF k = 0 THEN DecodeFrom(b, i + 1)
             ELSE << CodePoint(b, i, k) >> \o DecodeFrom(b, i + k)

DecodeIgnore(b) == DecodeFrom(b, 1)

\* the filter of the join: char.isprintable() or char.isspace()
KeepsChar(c) == IsPrintable(c) \/ IsSpace(c)

\* For a bytes argument neither the decoding with errors='ignore' nor the
\* join can raise, so the except clause is not entered.
extract_text_simple(fc) == SelectSeq(DecodeIgnore(fc), KeepsChar)

----------------------------------------------------------------------------
(* extract_text_from_docx *)

\* A parsed document is the sequence of its block items in document order;
\* a block is a paragraph [kind |-> "p", text |-> t] or a table
\* [kind |-> "t", rows |-> sequence of rows, a row a sequence of cell texts].

IsParagraph(blk) == blk.kind = "p"
IsTable(blk) == blk.kind = "t"

\* doc.paragraphs and doc.tables: the paragraphs, and the tables, of the
\* body, each list in document order
doc_paragraphs(doc) == SelectSeq(doc, IsParagraph)
doc_tables(doc) == SelectSeq(doc, IsTable)

CellSep == << 32, 124, 32 >>
RowSep == << 10 >>
SegmentSep == << 10, 10 >>
\* "\n[TABLICA]\n" and "\n[/TABLICA]"
TableBegin == << 10, 91, 1058, 1040, 1041, 1051, 1048, 1062, 1040, 93, 10 >>
TableEnd == << 10, 91, 47, 1058, 1040, 1041, 1051, 1048, 1062, 1040, 93 >>

\* if para.text.strip():
ParaKeptAlways(t) == TRUE
ParaKept(t) == Strip(t) # << >>

\* the loop over doc.paragraphs
RECURSIVE ParagraphLoop(_, _)
ParagraphLoop(paras, acc) ==
    IF paras = << >> THEN acc
    ELSE ParagraphLoop(Tail(paras),
             IF ParaKept(Head(paras).text)
             THEN Append(acc, Strip(Head(paras).text))
             ELSE acc)

\* the loop over row.cells
RECURSIVE CellLoop(_, _)
CellLoop(cells, row_text) ==
    IF cells = << >> THEN row_text
    ELSE LET cell_text == Strip(Head(cells))
         IN  CellLoop(Tail(cells),
                 IF cell_text # << >> THEN Append(row_text, cell_text)
                 ELSE row_text)

\* the loop over table.rows
RECURSIVE RowLoop(_, _)
RowLoop(rows, table_text) ==
    IF rows = << >> THEN table_text
    ELSE LET row_text == CellLoop(Head(rows), << >>)
         IN  RowLoop(Tail(rows),
                 IF row_text # << >> THEN Append(table_text, Join(row_text, CellSep))
                 ELSE table_text)

\* if table_text:
TableKeptAlways(table_text) == TRUE
TableKept(table_text) == table_text # << >>

\* the loop over doc.tables
RECURSIVE TableLoop(_, _)
TableLoop(tables, acc) ==
    IF tables = << >> THEN acc
    ELSE LET table_text == RowLoop(Head(tables).rows, << >>)
         IN  TableLoop(Tail(tables),
                 IF TableKept(table_text)
                 THEN Append(acc, TableBegin \o Join(table_text, RowSep) \o TableEnd)
                 ELSE acc)

\* the body of the try block, for a buffer that Document() has parsed
extract_text_from_docx(doc) ==
    Join(TableLoop(doc_tables(doc), ParagraphLoop(doc_paragraphs(doc), << >>)),
         SegmentSep)

----------------------------------------------------------------------------
(* Inputs *)

\* sequences over S of length 0..n
SeqsUpTo(S, n) == UNION {[1..k -> S] : k \in 0..n}

\* bytes: "A", newline, NUL, an invalid byte, and the two bytes of U+0410
ByteAlphabet == {65, 10, 0, 255, 208, 144}
Buffers == SeqsUpTo(ByteAlphabet, MaxBytes)

\* what Document() returns for the buffers it accepts
Para(t) == [kind |-> "p", text |-> t]
Table(rows) == [kind |-> "t", rows |-> rows]
ParsedDocs == { << >>, << Para(<< 32, 100, 32 >>) >>,
                << Table(<< << << 99 >>, << >> >> >>), Para(<< 100 >>) >> }

\* what mammoth.extract_raw_text returns in result.value when it succeeds
ConvTexts == { << >>, << 109, 10, 10 >> }

ParaPool == { << >>, << 32, 9 >>, << 97 >>, << 32, 98, 10, 98, 9 >> }
TablePool ==
    { << >>,
      << << << 32 >>, << >> >>, << << 9 >> >>, << << >>, << 32, 32 >> >> >>,
      << << << >>, << 32 >> >>, << << 120 >>, << 32, 121, 32 >> >> >>,
      << << << 120 >>, << >>, << 32, 122 >> >> >>,
      << << << 113 >> >>, << << 114 >> >> >> }
BlockPool == {Para(t) : t \in ParaPool} \cup {Table(r) : r \in TablePool}
Bodies == SeqsUpTo(BlockPool, MaxBlocks)

\* lines of the analysed texts
LinePool ==
    { << >>,
      \* "PREDMET DOGOVORA" in upper case, and "Storony" capitalised
      << 1055, 1056, 1045, 1044, 1052, 1045, 1058, 32,
         1044, 1054, 1043, 1054, 1042, 1054, 1056, 1040 >>,
      << 1057, 1090, 1086, 1088, 1086, 1085, 1099 >>,
      \* "1. sroki", "ab1", "abc1"
      << 49, 46, 32, 1089, 1088, 1086, 1082, 1080 >>,
      << 97, 98, 49 >>,
      << 97, 98, 99, 49 >>,
      \* the section mark, "Statya x", "statya x"
      << 167, 32, 120 >>,
      ArticleWord \o << 32, 120 >>,
      Lower(ArticleWord) \o << 32, 120 >>,
      \* "  REKVIZITY " and "obyazannosti"
      << 32, 32, 1056, 1045, 1050, 1042, 1048, 1047, 1048, 1058, 1067, 32 >>,
      KW_responsibilities[1],
      \* upper-case lines one short of, at, and beyond the length limit
      << 32 >> \o Rep(65, MaxHeadingLen - 1) \o << 9 >>,
      Rep(65, MaxHeadingLen),
      << 55 >> \o Rep(97, MaxHeadingLen) }

Texts == {Join(ls, << NL >>) : ls \in SeqsUpTo(LinePool, MaxLines)}

\* the inverse of LowerChar where a character has one
UpperChar(c) ==
    IF (c >= 97 /\ c <= 122) \/ (c >= 224 /\ c <= 246) \/ (c >= 248 /\ c <= 254)
       \/ (c >= 1072 /\ c <= 1103)
    THEN c - 32
    ELSE IF c >= 1104 /\ c <= 1119 THEN c - 80 ELSE c

\* a text that differs from t only in the case of its letters
Recase(t, mode) ==
    [i \in 1..Len(t) |->
        IF mode = "upper" THEN UpperChar(t[i])
        ELSE IF mode = "lower" THEN LowerChar(t[i])
        ELSE IF mode = "swap"
             THEN IF IsUpperChar(t[i]) THEN LowerChar(t[i]) ELSE UpperChar(t[i])
        ELSE IF i % 2 = 0 THEN UpperChar(t[i]) ELSE LowerChar(t[i])]

RecaseModes == {"upper", "lower", "swap", "alternate"}

NoReport == [none |-> TRUE]

----------------------------------------------------------------------------
(* Idle values of the three groups of variables *)

ProcIdle ==
    /\ pc = "idle" /\ file_name = "none" /\ file_content = << >>
    /\ attempts = << >> /\ docx_raised = FALSE /\ conv_failed = FALSE
    /\ conv_text = << >> /\ tmp_exists = FALSE /\ text = << >>
    /\ raised = FALSE /\ response = NoReport

DocxIdle ==
    /\ body = << >> /\ full_text = << >> /\ docx_out = << >> /\ docx_pc = "idle"

AnaIdle ==
    /\ a_text = << >> /\ a_pc = "idle" /\ a_kind = "none" /\ a_arg = << >>
    /\ cur = NoReport
    /\ a_calls = 0 /\ structure = NoReport /\ first = NoReport
    /\ v_text = << >> /\ v_structure = NoReport /\ v_done = FALSE
    /\ e_structure = NoReport /\ e_done = FALSE

----------------------------------------------------------------------------
(* process_document: choice of the extraction strategy, and                *)
(* extract_text_from_doc step by step                                      *)

\* the if / elif / else on file_name: the strategy entered first
FirstStrategyLegacy(fn) == IF fn = "docx" THEN "docx" ELSE "doc_create"
FirstStrategy(fn) == IF fn = "doc" THEN "doc_create" ELSE "docx"

\* where an exception of extract_text_from_docx goes: only the else branch
\* wraps the call in try / except and then calls extract_text_from_doc
AfterDocxRaise(fn) == IF fn = "other" THEN "doc_create" ELSE "fail"

ProcInit ==
    /\ pc = "dispatch"
    /\ file_name \in {"docx", "doc", "other"}
    /\ file_content \in Buffers
    /\ attempts = << >>
    /\ docx_raised = FALSE
    /\ conv_failed = FALSE
    /\ conv_text = << >>
    /\ tmp_exists = FALSE
    /\ text = << >>
    /\ raised = FALSE
    /\ response = NoReport
    /\ DocxIdle
    /\ AnaIdle

Dispatch ==
    /\ pc = "dispatch"
    /\ pc' = FirstStrategy(file_name)
    /\ UNCHANGED << file_name, file_content, attempts, docx_raised, conv_failed,
                    conv_text, tmp_exists, text, raised, response >>
    /\ UNCHANGED << docxVars, anaVars >>

\* extract_text_from_docx returns: Document() accepted the buffer
DocxOk ==
    /\ pc = "docx"
    /\ \E doc \in ParsedDocs : text' = extract_text_from_docx(doc)
    /\ attempts' = Append(attempts, "docx")
    /\ pc' = "analyze"
    /\ UNCHANGED << file_name, file_content, docx_raised, conv_failed,
                    conv_text, tmp_exists, raised, response >>
    /\ UNCHANGED << docxVars, anaVars >>

\* extract_text_from_docx logs and re-raises
DocxRaise ==
    /\ pc = "docx"
    /\ attempts' = Append(attempts, "docx")
    /\ docx_raised' = TRUE
    /\ pc' = AfterDocxRaise(file_name)
    /\ raised' = (pc' = "fail")
    /\ UNCHANGED << file_name, file_content, conv_failed,
                    conv_text, tmp_exists, text, response >>
    /\ UNCHANGED << docxVars, anaVars >>

\* a step of the try block of extract_text_from_doc raises
ToExcept ==
    /\ conv_failed' = TRUE
    /\ pc' = "doc_except"

\* tempfile.NamedTemporaryFile(suffix='.doc', delete=False)
DocCreate ==
    /\ pc = "doc_create"
    /\ attempts' = Append(attempts, "doc")
    /\ \/ tmp_exists' = TRUE /\ pc' = "doc_write" /\ UNCHANGED conv_failed
       \/ ToExcept /\ UNCHANGED tmp_exists
    /\ UNCHANGED << file_name, file_content, docx_raised,
                    conv_text, text, raised, response >>
    /\ UNCHANGED << docxVars, anaVars >>

\* tmp_file.write(file_content) and the end of the with block, which closes
\* the file and keeps it on disk
DocWrite ==
    /\ pc = "doc_write"
    /\ \/ pc' = "doc_open" /\ UNCHANGED conv_failed
       \/ ToExcept
    /\ UNCHANGED << file_name, file_content, attempts, docx_raised,
                    conv_text, tmp_exists, text, raised, response >>
    /\ UNCHANGED << docxVars, anaVars >>

\* open(tmp_file_path, "rb")
DocOpen ==
    /\ pc = "doc_open"
    /\ \/ pc' = "doc_convert" /\ UNCHANGED conv_failed
       \/ ToExcept
    /\ UNCHANGED << file_name, file_content, attempts, docx_raised,
                    conv_text, tmp_exists, text, raised, response >>
    /\ UNCHANGED << docxVars, anaVars >>

\* mammoth.extract_raw_text(docx_file); text = result.value
DocConvert ==
    /\ pc = "doc_convert"
    /\ \/ /\ conv_text' \in ConvTexts
          /\ pc' = "doc_unlink"
          /\ UNCHANGED conv_failed
       \/ ToExcept /\ UNCHANGED conv_text
    /\ UNCHANGED << file_name, file_content, attempts, docx_raised,
                    tmp_exists, text, raised, response >>
    /\ UNCHANGED << docxVars, anaVars >>

\* os.unlink(tmp_file_path)
DocUnlink ==
    /\ pc = "doc_unlink"
    /\ \/ tmp_exists' = FALSE /\ pc' = "doc_return" /\ UNCHANGED conv_failed
       \/ ToExcept /\ UNCHANGED tmp_exists
    /\ UNCHANGED << file_name, file_content, attempts, docx_raised,
                    conv_text, text, raised, response >>
    /\ UNCHANGED << docxVars, anaVars >>

\* return text
DocReturn ==
    /\ pc = "doc_return"
    /\ text' = conv_text
    /\ pc' = "analyze"
    /\ UNCHANGED << file_name, file_content, attempts, docx_raised, conv_failed,
                    conv_text, tmp_exists, raised, response >>
    /\ UNCHANGED << docxVars, anaVars >>

\* except Exception: log, return extract_text_simple(file_content)
DocExceptReraise ==
    /\ pc = "doc_except"
    /\ raised' = TRUE
    /\ pc' = "fail"
    /\ UNCHANGED << file_name, file_content, attempts, docx_raised, conv_failed,
                    conv_text, tmp_exists, text, response >>
    /\ UNCHANGED << docxVars, anaVars >>
DocExcept ==
    /\ pc = "doc_except"
    /\ attempts' = Append(attempts, "simple")
    /\ text' = extract_text_simple(file_content)
    /\ pc' = "analyze"
    /\ UNCHANGED << file_name, file_content, docx_raised, conv_failed,
                    conv_text, tmp_exists, raised, response >>
    /\ UNCHANGED << docxVars, anaVars >>

\* the rest of the try block of process_document: analysis and response
Respond ==
    /\ pc = "analyze"
    /\ response' = [success |-> TRUE,
                    text |-> text,
                    text_length |-> Len(text),
                    contract_analysis |-> analyze_contract_structure(text),
                    file_size_bytes |-> Len(file_content),
                    has_content |-> (text # << >>)]
    /\ pc' = "done"
    /\ UNCHANGED << file_name, file_content, attempts, docx_raised, conv_failed,
                    conv_text, tmp_exists, text, raised >>
    /\ UNCHANGED << docxVars, anaVars >>

\* the outer except of process_document: the error response
Fail ==
    /\ pc = "fail"
    /\ response' = [success |-> FALSE]
    /\ pc' = "done"
    /\ UNCHANGED << file_name, file_content, attempts, docx_raised, conv_failed,
                    conv_text, tmp_exists, text, raised >>
    /\ UNCHANGED << docxVars, anaVars >>

ProcNext ==
    \/ Dispatch
    \/ DocxOk
    \/ DocxRaise
    \/ DocCreate
    \/ DocWrite
    \/ DocOpen
    \/ DocConvert
    \/ DocUnlink
    \/ DocReturn
    \/ DocExcept
    \/ Respond
    \/ Fail

SpecProcess == ProcInit /\ [][ProcNext]_vars

----------------------------------------------------------------------------
(* extract_text_from_docx on a parsed document, loop by loop *)

DocxInit ==
    /\ body \in Bodies
    /\ full_text = << >>
    /\ docx_out = << >>
    /\ docx_pc = "paragraphs"
    /\ ProcIdle
    /\ AnaIdle

\* for para in doc.paragraphs
DocxParagraphs ==
    /\ docx_pc = "paragraphs"
    /\ full_text' = ParagraphLoop(doc_paragraphs(body), full_text)
    /\ docx_pc' = "tables"
    /\ UNCHANGED << body, docx_out >>
    /\ UNCHANGED << procVars, anaVars >>

\* for table in doc.tables
DocxTables ==
    /\ docx_pc = "tables"
    /\ full_text' = TableLoop(doc_tables(body), full_text)
    /\ docx_pc' = "join"
    /\ UNCHANGED << body, docx_out >>
    /\ UNCHANGED << procVars, anaVars >>

\* return "\n\n".join(full_text)
DocxReturn ==
    /\ docx_pc = "join"
    /\ docx_out' = Join(full_text, SegmentSep)
    /\ docx_pc' = "done"
    /\ UNCHANGED << body, full_text >>
    /\ UNCHANGED << procVars, anaVars >>

DocxNext ==
    \/ DocxParagraphs
    \/ DocxTables
    \/ DocxReturn

SpecDocx == DocxInit /\ [][DocxNext]_vars

----------------------------------------------------------------------------
(* analyze_contract_structure, step by step, called one call after another *)
(* on a text, on a text that differs from it in letter case only, and on   *)
(* the empty text.  cur is the dict the steps of a call write to; it stays *)
(* as the last call left it until a call builds its own.                   *)

AnaInit ==
    /\ a_text \in Texts
    /\ a_pc = "idle"
    /\ a_kind = "none"
    /\ a_arg = << >>
    /\ cur = NoReport
    /\ a_calls = 0
    /\ structure = NoReport
    /\ first = NoReport
    /\ v_text = << >>
    /\ v_structure = NoReport
    /\ v_done = FALSE
    /\ e_structure = NoReport
    /\ e_done = FALSE
    /\ ProcIdle
    /\ DocxIdle

\* a caller enters analyze_contract_structure(text)
AnalyzeCall ==
    /\ a_pc = "idle"
    /\ \/ /\ a_calls < MaxCalls
          /\ a_kind' = "base"
          /\ a_arg' = a_text
       \/ /\ ~v_done
          /\ a_kind' = "variant"
          /\ \E mode \in RecaseModes : a_arg' = Recase(a_text, mode)
       \/ /\ ~e_done
          /\ a_kind' = "empty"
          /\ a_arg' = << >>
    /\ a_pc' = "build"
    /\ UNCHANGED << a_text, cur, a_calls, structure, first,
                    v_text, v_structure, v_done, e_structure, e_done >>
    /\ UNCHANGED << procVars, docxVars >>

\* structure = {...}: the call builds its own dict
AnalyzeBuildShared ==
    /\ a_pc = "build"
    /\ cur' = IF cur = NoReport THEN NewStructure ELSE cur
    /\ a_pc' = "flags"
    /\ UNCHANGED << a_text, a_kind, a_arg, a_calls, structure, first,
                    v_text, v_structure, v_done, e_structure, e_done >>
    /\ UNCHANGED << procVars, docxVars >>
AnalyzeBuild ==
    /\ a_pc = "build"
    /\ cur' = NewStructure
    /\ a_pc' = "flags"
    /\ UNCHANGED << a_text, a_kind, a_arg, a_calls, structure, first,
                    v_text, v_structure, v_done, e_structure, e_done >>
    /\ UNCHANGED << procVars, docxVars >>

\* text_lower = text.lower() and the loop over the categories
AnalyzeFlags ==
    /\ a_pc = "flags"
    /\ cur' = SetFlags(cur, a_arg)
    /\ a_pc' = "sections"
    /\ UNCHANGED << a_text, a_kind, a_arg, a_calls, structure, first,
                    v_text, v_structure, v_done, e_structure, e_done >>
    /\ UNCHANGED << procVars, docxVars >>

\* the loop over the lines and return structure
AnalyzeSections ==
    /\ a_pc = "sections"
    /\ cur' = AppendSections(cur, a_arg)
    /\ a_pc' = "idle"
    /\ IF a_kind = "base"
       THEN /\ structure' = cur'
            /\ first' = IF a_calls = 0 THEN cur' ELSE first
            /\ a_calls' = a_calls + 1
            /\ UNCHANGED << v_text, v_structure, v_done, e_structure, e_done >>
       ELSE IF a_kind = "variant"
       THEN /\ v_text' = a_arg
            /\ v_structure' = cur'
            /\ v_done' = TRUE
            /\ UNCHANGED << a_calls, structure, first, e_structure, e_done >>
       ELSE /\ e_structure' = cur'
            /\ e_done' = TRUE
            /\ UNCHANGED << a_calls, structure, first, v_text, v_structure, v_done >>
    /\ UNCHANGED << a_text, a_kind, a_arg >>
    /\ UNCHANGED << procVars, docxVars >>

AnaNext ==
    \/ AnalyzeCall
    \/ AnalyzeBuild
    \/ AnalyzeFlags
    \/ AnalyzeSections

SpecAnalyze == AnaInit /\ [][AnaNext]_vars

----------------------------------------------------------------------------
(* Properties of process_document and extract_text_from_doc *)

Returned == pc \in {"analyze", "fail", "done"}

\* C1: when the legacy-binary path has returned to its caller, the temporary
\* file it created no longer exists, whichever way the path ended.
TempFileRemovedOnEveryExit == Returned => ~tmp_exists

\* C2: with the hint "docx", a failed structured parse is caught and the next
\* strategy is tried, so the request does not end in an error.
DocxHintFailureFallsBack ==
    (pc = "done" /\ file_name = "docx" /\ docx_raised)
        => (~raised /\ response.success /\ Len(attempts) > 1)

\* C3: with the hint "doc" no exception leaves the extraction; when a step of
\* the conversion failed the text is the fallback decoding of the same buffer,
\* made of printable characters and whitespace only.
LegacyHintNeverRaises ==
    file_name = "doc"
        => /\ ~raised
           /\ pc # "fail"
           /\ pc = "done" =>
                /\ response.success
                /\ response.text = text
                /\ conv_failed =>
                     /\ text = extract_text_simple(file_content)
                     /\ \A i \in 1..Len(text) :
                            IsPrintable(text[i]) \/ IsSpace(text[i])
                /\ ~conv_failed => text = conv_text

LegacyFallbackSeen ==
    /\ pc = "done" /\ file_name = "doc" /\ conv_failed
    /\ attempts = << "doc", "simple" >>
    /\ text # << >>
    /\ Len(text) < Len(file_content)

\* C4: with an unrecognized suffix the structured path is entered first and
\* the legacy-binary path only after the structured path raised; the first
\* path that returns supplies the text.
UnknownSuffixOrder ==
    file_name = "other"
        => /\ attempts # << >> => attempts[1] = "docx"
           /\ (\E i \in 1..Len(attempts) : attempts[i] = "doc")
                  => (docx_raised /\ attempts[2] = "doc")
           /\ pc = "done" =>
                /\ ~raised
                /\ response.success
                /\ ~docx_raised => attempts = << "docx" >>
                /\ (docx_raised /\ ~conv_failed)
                       => (attempts = << "docx", "doc" >> /\ response.text = conv_text)

UnknownSuffixLegacySeen ==
    /\ pc = "done" /\ file_name = "other" /\ docx_raised /\ ~conv_failed
    /\ response.text = conv_text
    /\ conv_text # << >>

----------------------------------------------------------------------------
(* Properties of extract_text_from_docx *)

NonEmpty(s) == s # << >>
IsTableBlock(seg) == seg # << >> /\ seg[1] = NL

TrimmedTexts(paras) == [i \in 1..Len(paras) |-> Strip(paras[i].text)]

\* the paragraph segments a document must contribute
ExpectedParagraphs(doc) == SelectSeq(TrimmedTexts(doc_paragraphs(doc)), NonEmpty)

SurvivingCells(row) == SelectSeq([i \in 1..Len(row) |-> Strip(row[i])], NonEmpty)
SurvivingRows(tbl) ==
    SelectSeq([i \in 1..Len(tbl.rows) |-> SurvivingCells(tbl.rows[i])], NonEmpty)
HasSurvivingRow(tbl) == SurvivingRows(tbl) # << >>

\* the block a table with surviving rows must contribute
ExpectedBlock(tbl) ==
    LET rows == SurvivingRows(tbl)
    IN  TableBegin
        \o Join([i \in 1..Len(rows) |-> Join(rows[i], CellSep)], RowSep)
        \o TableEnd

ExpectedBlocks(doc) ==
    LET kept == SelectSeq(doc_tables(doc), HasSurvivingRow)
    IN  [i \in 1..Len(kept) |-> ExpectedBlock(kept[i])]

\* the segments of a document taken block by block in document order
RECURSIVE DocumentOrderSegments(_)
DocumentOrderSegments(doc) ==
    IF doc = << >> THEN << >>
    ELSE (IF IsParagraph(Head(doc))
          THEN ExpectedParagraphs(<< Head(doc) >>)
          ELSE ExpectedBlocks(<< Head(doc) >>))
         \o DocumentOrderSegments(Tail(doc))

\* C5: the extracted text is the paragraph segments and table blocks in
\* document order, joined by a blank line.
SegmentsInDocumentOrder ==
    docx_pc = "done"
        => /\ full_text = DocumentOrderSegments(body)
           /\ docx_out = Join(full_text, SegmentSep)

\* C6: the paragraph segments are exactly the trimmed texts of the paragraphs
\* whose trimmed text is non-empty, in their order; no empty segment appears.
ParagraphSegmentsTrimmedNonEmpty ==
    docx_pc \in {"tables", "join", "done"}
        => LET expected == ExpectedParagraphs(body)
               n == Len(expected)
           IN  /\ Len(full_text) >= n
               /\ SubSeq(full_text, 1, n) = expected
               /\ \A i \in 1..Len(full_text) :
                      /\ full_text[i] # << >>
                      /\ i > n => IsTableBlock(full_text[i])
                      /\ i <= n => (~IsSpace(full_text[i][1])
                                    /\ ~IsSpace(full_text[i][Len(full_text[i])]))
               /\ (docx_pc = "done" /\ Len(full_text) = n)
                      => docx_out = Join(expected, SegmentSep)

ParagraphSegmentsSeen ==
    /\ docx_pc = "done"
    /\ \E i \in 1..Len(body) : IsParagraph(body[i]) /\ body[i].text # << >>
                               /\ Strip(body[i].text) = << >>
    /\ \E i \in 1..Len(body) : IsParagraph(body[i]) /\ Strip(body[i].text) # << >>
                               /\ Strip(body[i].text) # body[i].text
    /\ Len(ExpectedParagraphs(body)) >= 2

\* C7: a table contributes the block of its surviving rows, a row without a
\* non-empty cell is absent from it, and a table without surviving rows
\* contributes nothing, no marker included.
EmptyRowsAndTablesOmitted ==
    docx_pc \in {"join", "done"}
        => LET n == Len(ExpectedParagraphs(body))
               blocks == ExpectedBlocks(body)
           IN  /\ Len(full_text) = n + Len(blocks)
               /\ SubSeq(full_text, n + 1, Len(full_text)) = blocks
               /\ (docx_pc = "done" /\ blocks = << >>)
                      => /\ docx_out = Join(ExpectedParagraphs(body), SegmentSep)
                         /\ ~Contains(docx_out, SubSeq(TableBegin, 2, 10))
                         /\ ~Contains(docx_out, SubSeq(TableEnd, 2, 11))

EmptyRowsAndTablesSeen ==
    /\ docx_pc = "done"
    /\ \E i \in 1..Len(body) :
           IsTable(body[i]) /\ Len(body[i].rows) = 3 /\ ~HasSurvivingRow(body[i])
    /\ \E i \in 1..Len(body) :
           /\ IsTable(body[i]) /\ HasSurvivingRow(body[i])
           /\ Len(SurvivingRows(body[i])) < Len(body[i].rows)

----------------------------------------------------------------------------
(* Properties of analyze_contract_structure *)

\* the heading criteria and the length limit, on a trimmed line
QualifiesAsHeading(l) ==
    /\ l # << >>
    /\ \/ IsUpper(l)
       \/ \E i \in 1..3 : i <= Len(l) /\ IsDigit(l[i])
       \/ (Len(l) >= 1 /\ l[1] = 167)
       \/ (Len(l) >= 6 /\ SubSeq(l, 1, 6) = ArticleWord)
    /\ Len(l) < 100

TrimmedLines(t) == LET ls == Split(t, NL) IN [i \in 1..Len(ls) |-> Strip(ls[i])]

\* C8: the heading list is, in line order and with repetitions, the trimmed
\* lines of the original text that meet a heading criterion and are shorter
\* than 100 characters.
HeadingsAreShortShapedLines ==
    a_calls > 0
        => /\ structure.sections = SelectSeq(TrimmedLines(a_text), QualifiesAsHeading)
           /\ \A i \in 1..Len(structure.sections) : Len(structure.sections[i]) < 100

LongHeadingRejectedSeen ==
    /\ a_calls > 0
    /\ \E i \in 1..Len(TrimmedLines(a_text)) :
           LET l == TrimmedLines(a_text)[i] IN Len(l) = 100 /\ IsUpper(l)
    /\ Len(structure.sections) = 1
    /\ Len(structure.sections[1]) = 99

Flags(r) == << r.has_parties, r.has_subject, r.has_terms,
               r.has_responsibilities, r.has_signatures >>

TriggerOccurs(cat, t) ==
    LET lowered == Lower(t)
        words == keywords[cat]
    IN  \E i \in 1..Len(words) : Contains(lowered, words[i])

\* C9: a flag is true exactly when a trigger phrase of its category occurs in
\* the lower-cased text, and texts that differ in letter case only get the
\* same five flags.
FlagsCaseInsensitive ==
    /\ a_calls > 0
           => Flags(structure) = << TriggerOccurs("parties", a_text),
                                    TriggerOccurs("subject", a_text),
                                    TriggerOccurs("terms", a_text),
                                    TriggerOccurs("responsibilities", a_text),
                                    TriggerOccurs("signatures", a_text) >>
    /\ (a_calls > 0 /\ v_done) => Flags(structure) = Flags(v_structure)

CaseVariantSeen ==
    /\ a_calls > 0 /\ v_done
    /\ v_text # a_text
    /\ structure.has_subject /\ ~structure.has_parties
    /\ ~Contains(a_text, KW_subject[1])
    /\ Contains(v_text, KW_subject[1])

AllFalseReport ==
    [has_parties |-> FALSE, has_subject |-> FALSE, has_terms |-> FALSE,
     has_responsibilities |-> FALSE, has_signatures |-> FALSE, sections |-> << >>]

\* C10: whatever calls came before, a call on the empty text returns the
\* report with five false flags and no heading, and a call on a text returns
\* the report its first call on that text returned: no call leaves anything
\* behind that a later call picks up.
AnalyzeFreshReport ==
    /\ e_done => e_structure = AllFalseReport
    /\ a_calls > 0 => structure = first
    /\ (a_calls > 0 /\ a_text = << >>) => structure = AllFalseReport

RepeatedCallsSeen ==
    /\ a_pc = "idle"
    /\ a_calls >= 2 /\ v_done /\ e_done
    /\ structure.sections # << >>
    /\ structure.has_subject
    /\ v_structure.sections # structure.sections
    /\ e_structure.sections = << >>

====
